---- MODULE Spec2Model ----
(***************************************************************************)
(* Model of the container supervision core of nomad-driver-podman:         *)
(*   - api: ContainerStats (direct probe), containerStatsBroadcaster       *)
(*     (Subscribe, CancelSubscription, serve) and the upstream poller of   *)
(*     ContainerStatsStream;                                               *)
(*   - TaskHandle: taskStatus, isRunning, runExitWatcher and               *)
(*     runContainerMonitor, all sharing the handle's stateLock.            *)
(* Every goroutine is a process with a program counter.  A send on an      *)
(* unbuffered channel is a joint step of the sender and the receiver; the  *)
(* code the receiver runs after the receive is a later step of its own.    *)
(***************************************************************************)
EXTENDS Integers, Sequences, FiniteSets, TLC

\* ---------------------------------------------------------------- bounds
\* Generic subscribers of the hub besides the Monitor.
Clients == {"c1", "c2"}
\* How many times one client may call Subscribe.
MaxSubs == 1
\* Largest value of the wall clock (time.Now()); the clock starts at 1.
MaxClock == 2

\* ------------------------------------------------------ program constants
\* errChan := make(chan error, 1)
ErrChanCap == 1
\* The zero time.Time, the value of completedAt before it is written.
ZeroTime == 0
\* The reading of the clock when the handle was constructed (startedAt and the
\* first logPointer).
StartTime == 1

\* ---------------------------------------------------------------- values
NIL == "nil"
ContainerID == "c0"
\* Stats batches the poller can decode: without and with an entry of this
\* handle's container (CPUNano is the payload cached by the Monitor).
Batches == {"B0", "B1"}
\* The entries of a batch; a nil batch has none.
Entries(b) ==
  IF b = "B0" THEN << [ContainerID |-> "other", CPUNano |-> 1] >>
  ELSE IF b = "B1" THEN << [ContainerID |-> "other", CPUNano |-> 1],
                          [ContainerID |-> ContainerID, CPUNano |-> 2] >>
  ELSE << >>
\* Errors of the poll (c.Get failed, or the body did not decode).
PollErrors == {"pollErr"}

\* The two channels made by one call of Subscribe.
ChanS(p, g) == <<p, g, "s">>
ChanE(p, g) == <<p, g, "e">>
Owner(ch) == ch[1]
Gen(ch) == ch[2]
Kind(ch) == ch[3]

Range(s) == {s[i] : i \in 1..Len(s)}
RemoveAt(s, i) == SubSeq(s, 1, i - 1) \o SubSeq(s, i + 1, Len(s))

VARIABLES
  \* --- cancellation
  ctxDone,          \* the context handed to every loop is cancelled
  \* --- ContainerStatsStream (upstream poller)
  poller,           \* position of the polling goroutine
  errChan,          \* buffered upstream error channel
  upClosed,         \* the poller closed statsChan and errChan
  \* --- containerStatsBroadcaster
  statsListeners,   \* c.statsListeners
  errListeners,     \* c.errListeners
  closedCh,         \* listener channels that were closed
  srv,              \* position of serve: [pc, ch, val, i]
  \* --- generic subscribers
  cl,               \* per client: [pc, gen, known, ready, got]; known: the
                    \* last call of CancelSubscription was the first one for
                    \* a pair that Subscribe had returned
  late,             \* history: channels that got a value after their
                    \* CancelSubscription had returned
  \* --- TaskHandle
  now,              \* wall clock
  dead,             \* the container has stopped: from now on the direct probe
                    \* answers not-found or wrong-state
  stateLock,        \* [writer, readers] of the RWMutex
  procState, completedAt, containerStats,
  exitResultPtr,    \* the field h.exitResult: a pointer, or NIL
  exitResult,       \* the drivers.ExitResult it points to
  \* --- runContainerMonitor
  mon,              \* [pc, val]
  inspectData,      \* result of ContainerInspect kept by the Monitor
  \* --- taskStatus (GetStatus)
  ts,               \* [pc, ret]: position of a caller and the last record returned
  \* --- runExitWatcher
  ew,               \* [pc, why, result]
  exitChannel,      \* [sent, closed]: values received on the channel so far
  \* --- runLogStreamer
  logPointer,       \* h.logPointer, the resume cursor kept in the handle
  ls,               \* [pc, init, since, arg]: arg is the since value handed
                    \* to the last ContainerLogs invocation
  \* --- runStatsEmitter
  se                \* [pc, usage]

hubVars == <<poller, errChan, upClosed, statsListeners, errListeners, closedCh, srv>>
clientVars == <<cl, late>>
fieldVars == <<procState, completedAt, containerStats, exitResultPtr, exitResult>>
handleVars == <<now, dead, stateLock, fieldVars, ts, ew, exitChannel>>
monVars == <<mon, inspectData>>
\* The LogStreamer and the StatsEmitter.
workerVars == <<logPointer, ls, se>>
vars == <<ctxDone, hubVars, clientVars, handleVars, monVars, workerVars>>

\* drivers.ExitResult{} : the zero value
ZeroExitResult == [ExitCode |-> 0, Signal |-> 0, OOMKilled |-> FALSE, Err |-> NIL]

\* No channel.
NoChan == <<NIL, 0, NIL>>

SrvSelect == [pc |-> "select", ch |-> NoChan, val |-> NIL, i |-> 0]

\* inspectData before ContainerInspect was called.
NoInspect ==
  [err |-> FALSE, ExitCode |-> 0, Error |-> "", OOMKilled |-> FALSE,
   FinishedAt |-> ZeroTime]

\* What a consumer holds before it has received anything: <<kind, value>>.
NoValue == <<"none", NIL>>
\* What taskStatus has returned before its first call.
NoStatus == [State |-> NIL, CompletedAt |-> ZeroTime, ExitResult |-> NIL]
\* What the ExitWatcher has read before its deferred function ran.
NoResult == [ptr |-> NIL, state |-> NIL, seen |-> ZeroExitResult]
\* The usage record before the StatsEmitter has built one.
NoUsage == [CPUNano |-> 0, Timestamp |-> ZeroTime]

\* The state after construction: the hub serves with no listener, the poller
\* waits for its first tick, the handle is running.  runContainerMonitor writes
\* through h.exitResult without allocating it, so the handle is constructed
\* with an allocated, zero-valued ExitResult.
Init ==
  /\ ctxDone = FALSE
  /\ poller = [pc |-> "wait", err |-> NIL]
  /\ errChan = << >>
  /\ upClosed = FALSE
  /\ statsListeners = << >>
  /\ errListeners = << >>
  /\ closedCh = {}
  /\ srv = SrvSelect
  /\ cl = [c \in Clients |-> [pc |-> "idle", gen |-> 0, known |-> FALSE,
                               ready |-> {}, got |-> NoValue]]
  /\ late = {}
  /\ now = StartTime
  /\ dead = FALSE
  /\ stateLock = [writer |-> NIL, readers |-> {}]
  /\ procState = "running"
  /\ exitResultPtr = "er"
  /\ exitResult = ZeroExitResult
  /\ completedAt = ZeroTime
  /\ containerStats = 0
  /\ mon = [pc |-> "start", val |-> NIL]
  /\ inspectData = NoInspect
  /\ ts = [pc |-> "idle", ret |-> NoStatus]
  /\ ew = [pc |-> "check", why |-> NIL, result |-> NoResult]
  /\ exitChannel = [sent |-> << >>, closed |-> FALSE]
  /\ logPointer = StartTime
  /\ ls = [pc |-> "start", init |-> TRUE, since |-> ZeroTime, arg |-> ZeroTime]
  /\ se = [pc |-> "select", usage |-> NoUsage]

\* ------------------------------------------------------------ cancellation
Cancel ==
  /\ ~ctxDone
  /\ ctxDone' = TRUE
  /\ UNCHANGED <<hubVars, clientVars, handleVars, monVars,
                 workerVars>>

\* ------------------------------------------------- receivers of a listener
\* A receiver is parked on channel ch: a non-blocking send on ch succeeds.
Ready(ch) ==
  IF Owner(ch) = "mon"
    THEN mon.pc = "parked"
    ELSE /\ cl[Owner(ch)].gen = Gen(ch)
         /\ Kind(ch) \in cl[Owner(ch)].ready

\* A call of CancelSubscription for c's channels has returned.
CancelReturned(c) ==
  \/ cl[c].pc = "cancelled"
  \/ cl[c].pc = "can2" /\ cl[c].gen > 0 /\ ~cl[c].known

\* The receiver parked on ch takes value v.
Deliver(ch, v) ==
  IF Owner(ch) = "mon"
    THEN /\ mon' = [pc |-> IF Kind(ch) = "s" THEN "gotStats" ELSE "gotErr", val |-> v]
         /\ UNCHANGED <<cl, late>>
    ELSE /\ cl' = [cl EXCEPT ![Owner(ch)].ready = {},
                             ![Owner(ch)].got = <<Kind(ch), v>>]
         /\ late' = IF CancelReturned(Owner(ch)) THEN late \cup {ch} ELSE late
         /\ UNCHANGED mon

\* ---------------------------------------------------------------- serve
\* serve is parked in its select and receives a request or an upstream event.
HubRecv(kind, ch, v) ==
  /\ srv.pc = "select"
  /\ srv' = [pc |-> kind, ch |-> ch, val |-> v, i |-> 1]

\* A shutdown handler that closes the stats listeners only.
ServeCtxDone_StatsOnly ==
  /\ srv.pc = "select"
  /\ ctxDone
  /\ srv' = [SrvSelect EXCEPT !.pc = "done"]
  /\ closedCh' = closedCh \cup Range(statsListeners)
  /\ UNCHANGED <<ctxDone, poller, errChan, upClosed, statsListeners, errListeners,
                 clientVars, handleVars, monVars, workerVars>>

\* case <-ctx.Done(): return, then the deferred closing of all listeners.
ServeCtxDone ==
  /\ srv.pc = "select"
  /\ ctxDone
  /\ LET all == Range(statsListeners) \cup Range(errListeners) IN
       IF \/ all \cap closedCh # {}
          \/ Cardinality(all) # Len(statsListeners) + Len(errListeners)
         THEN /\ srv' = [SrvSelect EXCEPT !.pc = "panic"]
              /\ closedCh' = closedCh \cup all
         ELSE /\ srv' = [SrvSelect EXCEPT !.pc = "done"]
              /\ closedCh' = closedCh \cup all
  /\ UNCHANGED <<ctxDone, poller, errChan, upClosed, statsListeners, errListeners,
                 clientVars, handleVars, monVars,
                 workerVars>>

\* c.statsListeners = append(c.statsListeners, newStatsListener)
ServeAddStats ==
  /\ srv.pc = "addStats"
  /\ statsListeners' = Append(statsListeners, srv.ch)
  /\ srv' = SrvSelect
  /\ UNCHANGED <<ctxDone, poller, errChan, upClosed, errListeners, closedCh,
                 clientVars, handleVars, monVars,
                 workerVars>>

\* c.errListeners = append(c.errListeners, newErrListener)
ServeAddErr ==
  /\ srv.pc = "addErr"
  /\ errListeners' = Append(errListeners, srv.ch)
  /\ srv' = SrvSelect
  /\ UNCHANGED <<ctxDone, poller, errChan, upClosed, statsListeners, closedCh,
                 clientVars, handleVars, monVars,
                 workerVars>>

\* The first index of x in list, 0 if there is none.
IndexOf(list, x) ==
  IF x \in Range(list)
    THEN CHOOSE i \in 1..Len(list) :
           list[i] = x /\ \A j \in 1..(i - 1) : list[j] # x
    ELSE 0

\* A remove loop whose comparison never matches: nothing is dropped or closed.
RemoveListener_NeverMatches(list, x) ==
  [list |-> list, closed |-> closedCh, panic |-> FALSE]

\* A remove loop that falls back to the last listener when none matches.
RemoveListener_DropsLast(list, x) ==
  LET i == IF IndexOf(list, x) = 0 THEN Len(list) ELSE IndexOf(list, x) IN
    IF i = 0
      THEN [list |-> list, closed |-> closedCh, panic |-> FALSE]
      ELSE [list |-> RemoveAt(list, i), closed |-> closedCh \cup {list[i]},
            panic |-> list[i] \in closedCh]

\* A remove loop that closes the listener and leaves it in the list.
RemoveListener_KeepsListed(list, x) ==
  LET i == IndexOf(list, x) IN
    IF i = 0
      THEN [list |-> list, closed |-> closedCh, panic |-> FALSE]
      ELSE [list |-> list, closed |-> closedCh \cup {x}, panic |-> x \in closedCh]

\* The loop of a remove case: drop the first listener equal to x and close it.
\* Closing a closed channel panics.
RemoveListener(list, x) ==
  LET i == IndexOf(list, x) IN
    IF i = 0
      THEN [list |-> list, closed |-> closedCh, panic |-> FALSE]
      ELSE [list |-> RemoveAt(list, i), closed |-> closedCh \cup {x},
            panic |-> x \in closedCh]

ServeRemoveStats ==
  /\ srv.pc = "rmStats"
  /\ LET r == RemoveListener(statsListeners, srv.ch) IN
       /\ statsListeners' = r.list
       /\ closedCh' = r.closed
       /\ srv' = IF r.panic THEN [SrvSelect EXCEPT !.pc = "panic"] ELSE SrvSelect
  /\ UNCHANGED <<ctxDone, poller, errChan, upClosed, errListeners,
                 clientVars, handleVars, monVars,
                 workerVars>>

ServeRemoveErr ==
  /\ srv.pc = "rmErr"
  /\ LET r == RemoveListener(errListeners, srv.ch) IN
       /\ errListeners' = r.list
       /\ closedCh' = r.closed
       /\ srv' = IF r.panic THEN [SrvSelect EXCEPT !.pc = "panic"] ELSE SrvSelect
  /\ UNCHANGED <<ctxDone, poller, errChan, upClosed, statsListeners,
                 clientVars, handleVars, monVars,
                 workerVars>>

\* case stats := <-c.statsChan, when the poller has closed the channel.
ServeRecvStatsClosed ==
  /\ upClosed
  /\ HubRecv("bcastStats", NoChan, NIL)
  /\ UNCHANGED <<ctxDone, poller, errChan, upClosed, statsListeners, errListeners,
                 closedCh, clientVars, handleVars, monVars,
                 workerVars>>

\* case err := <-c.errStatsChan: a buffered error, or nil once the channel is
\* closed and drained.
ServeRecvErr ==
  /\ \/ /\ errChan # << >>
        /\ HubRecv("bcastErr", NoChan, Head(errChan))
        /\ errChan' = Tail(errChan)
     \/ /\ errChan = << >>
        /\ upClosed
        /\ HubRecv("bcastErr", NoChan, NIL)
        /\ errChan' = errChan
  /\ UNCHANGED <<ctxDone, poller, upClosed, statsListeners, errListeners,
                 closedCh, clientVars, handleVars, monVars,
                 workerVars>>

\* A broadcast loop whose select always takes the default case.
BroadcastStep_AlwaysSkip(list) ==
  /\ srv' = IF srv.i >= Len(list) THEN SrvSelect ELSE [srv EXCEPT !.i = srv.i + 1]
  /\ UNCHANGED <<cl, late, mon>>

\* A broadcast loop with a blocking send: it waits until the listener is ready.
BroadcastStep_Blocking(list) ==
  IF srv.i > Len(list)
    THEN /\ srv' = SrvSelect
         /\ UNCHANGED <<cl, late, mon>>
    ELSE /\ Ready(list[srv.i])
         /\ Deliver(list[srv.i], srv.val)
         /\ srv' = IF srv.i >= Len(list) THEN SrvSelect
                                         ELSE [srv EXCEPT !.i = srv.i + 1]

\* One iteration of a broadcast loop over list:
\*   select { case listener <- v: default: }
\* A send on a closed channel panics.
BroadcastStep(list) ==
  IF srv.i > Len(list)
    THEN /\ srv' = SrvSelect
         /\ UNCHANGED <<cl, late, mon>>
    ELSE LET ch == list[srv.i]
             after == IF srv.i >= Len(list) THEN SrvSelect
                                            ELSE [srv EXCEPT !.i = srv.i + 1]
         IN  IF ch \in closedCh
               THEN /\ srv' = [SrvSelect EXCEPT !.pc = "panic"]
                    /\ UNCHANGED <<cl, late, mon>>
               ELSE IF Ready(ch)
                 THEN /\ Deliver(ch, srv.val)
                      /\ srv' = after
                 ELSE /\ srv' = after
                      /\ UNCHANGED <<cl, late, mon>>

ServeBroadcastStats ==
  /\ srv.pc = "bcastStats"
  /\ BroadcastStep(statsListeners)
  /\ UNCHANGED <<ctxDone, poller, errChan, upClosed, statsListeners, errListeners,
                 closedCh, handleVars, inspectData,
                 workerVars>>

ServeBroadcastErr ==
  /\ srv.pc = "bcastErr"
  /\ BroadcastStep(errListeners)
  /\ UNCHANGED <<ctxDone, poller, errChan, upClosed, statsListeners, errListeners,
                 closedCh, handleVars, inspectData,
                 workerVars>>

\* ------------------------------------------------- the upstream poller
\* case <-ctx.Done(): timer.Stop(); close(statsChan); close(errChan); return
PollerCtxDone ==
  /\ poller.pc = "wait"
  /\ ctxDone
  /\ poller' = [pc |-> "done", err |-> NIL]
  /\ upClosed' = TRUE
  /\ UNCHANGED <<ctxDone, errChan, statsListeners, errListeners, closedCh, srv,
                 clientVars, handleVars, monVars,
                 workerVars>>

\* case <-timer.C, and the poll or its decoding fails: errChan <- err is next.
PollerTickErr ==
  /\ poller.pc = "wait"
  /\ \E e \in PollErrors : poller' = [pc |-> "sendErr", err |-> e]
  /\ UNCHANGED <<ctxDone, errChan, upClosed, statsListeners, errListeners, closedCh,
                 srv, clientVars, handleVars, monVars,
                 workerVars>>

\* errChan <- err : blocks while the buffer is full.
PollerSendErr ==
  /\ poller.pc = "sendErr"
  /\ Len(errChan) < ErrChanCap
  /\ errChan' = Append(errChan, poller.err)
  /\ poller' = [pc |-> "wait", err |-> NIL]
  /\ UNCHANGED <<ctxDone, upClosed, statsListeners, errListeners, closedCh, srv,
                 clientVars, handleVars, monVars,
                 workerVars>>

\* case <-timer.C, the poll succeeds:
\*   select { case statsChan <- stats.Stats: default: }
\* serve takes the batch if it is parked in its select, else the batch is lost.
PollerTickStats ==
  /\ poller.pc = "wait"
  /\ \E b \in Batches :
       \/ HubRecv("bcastStats", NoChan, b)
       \/ srv' = srv
  /\ UNCHANGED <<ctxDone, poller, errChan, upClosed, statsListeners, errListeners,
                 closedCh, clientVars, handleVars, monVars,
                 workerVars>>

\* ------------------------------------------------- generic subscribers
\* Subscribe: make the two channels.
ClientSubscribe(c) ==
  /\ \/ cl[c].pc = "idle"
     \/ cl[c].pc = "cancelled"
  /\ cl[c].gen < MaxSubs
  /\ cl' = [cl EXCEPT ![c] = [pc |-> "sub1", gen |-> cl[c].gen + 1,
                              known |-> cl[c].known, ready |-> {}, got |-> NoValue]]
  /\ UNCHANGED <<ctxDone, hubVars, late, handleVars, monVars,
                 workerVars>>

\* c.addStatsListener <- newStatsListener
ClientSubscribeStats(c) ==
  /\ cl[c].pc = "sub1"
  /\ HubRecv("addStats", ChanS(c, cl[c].gen), NIL)
  /\ cl' = [cl EXCEPT ![c].pc = "sub2"]
  /\ UNCHANGED <<ctxDone, poller, errChan, upClosed, statsListeners, errListeners,
                 closedCh, late, handleVars, monVars,
                 workerVars>>

\* c.addErrListener <- newErrListener; return
ClientSubscribeErr(c) ==
  /\ cl[c].pc = "sub2"
  /\ HubRecv("addErr", ChanE(c, cl[c].gen), NIL)
  /\ cl' = [cl EXCEPT ![c].pc = "subscribed"]
  /\ UNCHANGED <<ctxDone, poller, errChan, upClosed, statsListeners, errListeners,
                 closedCh, late, handleVars, monVars,
                 workerVars>>

\* CancelSubscription: c.removeStatsListener <- ch.  The caller passes the
\* pair Subscribe gave it, for the first time or again, or (before any
\* Subscribe) a pair the hub has never seen.
ClientCancelStats(c) ==
  /\ cl[c].pc \in {"subscribed", "cancelled", "idle"}
  /\ HubRecv("rmStats", ChanS(c, cl[c].gen), NIL)
  /\ cl' = [cl EXCEPT ![c].pc = "can2", ![c].known = (cl[c].pc = "subscribed")]
  /\ UNCHANGED <<ctxDone, poller, errChan, upClosed, statsListeners, errListeners,
                 closedCh, late, handleVars, monVars,
                 workerVars>>

\* CancelSubscription: c.removeErrListener <- errCh; return
ClientCancelErr(c) ==
  /\ cl[c].pc = "can2"
  /\ HubRecv("rmErr", ChanE(c, cl[c].gen), NIL)
  /\ cl' = [cl EXCEPT ![c].pc = IF cl[c].gen = 0 THEN "idle" ELSE "cancelled"]
  /\ UNCHANGED <<ctxDone, poller, errChan, upClosed, statsListeners, errListeners,
                 closedCh, late, handleVars, monVars,
                 workerVars>>

\* The consumer of a subscription starts a receive on the channels in K.
\* A closed channel among them yields end-of-stream at once.
ClientReceive(c, K) ==
  /\ cl[c].pc \in {"subscribed", "can2", "cancelled"}
  /\ cl[c].gen > 0
  /\ cl[c].ready = {}
  /\ LET chans == {<<c, cl[c].gen, k>> : k \in K} IN
       IF chans \cap closedCh # {}
         THEN cl' = [cl EXCEPT ![c].got = <<"eos", NIL>>]
         ELSE cl' = [cl EXCEPT ![c].ready = K, ![c].got = NoValue]
  /\ UNCHANGED <<ctxDone, hubVars, late, handleVars, monVars,
                 workerVars>>

\* A parked consumer is woken by the closing of one of its channels.
ClientWakeClosed(c) ==
  /\ \E k \in cl[c].ready : <<c, cl[c].gen, k>> \in closedCh
  /\ cl' = [cl EXCEPT ![c].ready = {}, ![c].got = <<"eos", NIL>>]
  /\ UNCHANGED <<ctxDone, hubVars, late, handleVars, monVars,
                 workerVars>>

ClientStep ==
  \E c \in Clients :
    \/ ClientSubscribe(c)
    \/ ClientSubscribeStats(c)
    \/ ClientSubscribeErr(c)
    \/ ClientCancelStats(c)
    \/ ClientCancelErr(c)
    \/ \E K \in {{"s"}, {"e"}, {"s", "e"}} : ClientReceive(c, K)
    \/ ClientWakeClosed(c)

ServeStep ==
  \/ ServeCtxDone
  \/ ServeAddStats
  \/ ServeAddErr
  \/ ServeRemoveStats
  \/ ServeRemoveErr
  \/ ServeRecvStatsClosed
  \/ ServeRecvErr
  \/ ServeBroadcastStats
  \/ ServeBroadcastErr

PollerStep ==
  \/ PollerCtxDone
  \/ PollerTickErr
  \/ PollerSendErr
  \/ PollerTickStats

\* ------------------------------------------------------------ the clock
Tick ==
  /\ now < MaxClock
  /\ now' = now + 1
  /\ UNCHANGED <<ctxDone, hubVars, clientVars, dead, stateLock, fieldVars, ts, ew,
                 exitChannel, monVars,
                 workerVars>>

\* ------------------------------------------------------ the container
\* The container stops: the runtime answers the direct probe with 404, 409,
\* an empty body or "container is stopped" from now on.
ContainerStops ==
  /\ ~dead
  /\ dead' = TRUE
  /\ UNCHANGED <<ctxDone, hubVars, clientVars, now, stateLock, fieldVars, ts, ew,
                 exitChannel, monVars,
                 workerVars>>

\* ------------------------------------------------------------ stateLock
\* h.stateLock.Lock() can return
CanLock == stateLock.writer = NIL /\ stateLock.readers = {}
\* h.stateLock.RLock() can return
CanRLock == stateLock.writer = NIL
LockFree == stateLock.writer = NIL /\ stateLock.readers = {}

\* ------------------------------------------------- API.ContainerStats
\* What the runtime can answer to the direct probe of one container.
ProbeResponses ==
  [getErr : BOOLEAN, status : {200, 404, 409, 500}, readErr : BOOLEAN,
   body : {"empty", "stopped", "garbage", "stats"}]

\* The error ContainerStats returns for a response (NIL: no error).
ContainerStats(resp) ==
  IF resp.getErr THEN "other"
  ELSE IF resp.status = 404 THEN "ContainerNotFound"
  ELSE IF resp.status = 409 THEN "ContainerWrongState"
  ELSE IF resp.status # 200 THEN "other"
  ELSE IF resp.readErr THEN "other"
  ELSE IF resp.body = "empty" THEN "ContainerNotFound"
  ELSE IF resp.body = "stopped" THEN "ContainerNotFound"
  ELSE IF resp.body = "garbage" THEN "other"
  ELSE NIL

\* What ContainerInspect can return: an error, or the inspected state.
InspectResults ==
  [err : {TRUE}, ExitCode : {0}, Error : {""}, OOMKilled : {FALSE},
   FinishedAt : {ZeroTime}]
  \cup
  [err : {FALSE}, ExitCode : {0, 137}, Error : {"", "boom"}, OOMKilled : BOOLEAN,
   FinishedAt : 1..MaxClock]

InspectErr == "Driver was unable to get the exit code"
OOMErr == "podman container killed by OOM killer"

\* ------------------------------------------------- runContainerMonitor
\* statsChan, errChan := containerStatsBroadcaster.Subscribe() : first send
MonitorSubscribeStats ==
  /\ mon.pc = "start"
  /\ HubRecv("addStats", ChanS("mon", 1), NIL)
  /\ mon' = [mon EXCEPT !.pc = "sub2"]
  /\ UNCHANGED <<ctxDone, poller, errChan, upClosed, statsListeners, errListeners,
                 closedCh, clientVars, handleVars, inspectData,
                 workerVars>>

\* Subscribe: second send, and return
MonitorSubscribeErr ==
  /\ mon.pc = "sub2"
  /\ HubRecv("addErr", ChanE("mon", 1), NIL)
  /\ mon' = [mon EXCEPT !.pc = "loop"]
  /\ UNCHANGED <<ctxDone, poller, errChan, upClosed, statsListeners, errListeners,
                 closedCh, clientVars, handleVars, inspectData,
                 workerVars>>

\* The Monitor enters its select and waits.
MonitorPark ==
  /\ mon.pc = "loop"
  /\ mon' = [pc |-> "parked", val |-> NIL]
  /\ UNCHANGED <<ctxDone, hubVars, clientVars, handleVars, inspectData,
                 workerVars>>

\* case <-h.driver.ctx.Done(): return
MonitorCtxDone ==
  /\ mon.pc = "parked"
  /\ ctxDone
  /\ mon' = [pc |-> "done", val |-> NIL]
  /\ UNCHANGED <<ctxDone, hubVars, clientVars, handleVars, inspectData,
                 workerVars>>

\* case allStats := <-statsChan on a closed channel: a nil batch
MonitorRecvClosedStats ==
  /\ mon.pc = "parked"
  /\ ChanS("mon", 1) \in closedCh
  /\ mon' = [pc |-> "gotStats", val |-> NIL]
  /\ UNCHANGED <<ctxDone, hubVars, clientVars, handleVars, inspectData,
                 workerVars>>

\* case err := <-errChan on a closed channel: a nil error
MonitorRecvClosedErr ==
  /\ mon.pc = "parked"
  /\ ChanE("mon", 1) \in closedCh
  /\ mon' = [pc |-> "gotErr", val |-> NIL]
  /\ UNCHANGED <<ctxDone, hubVars, clientVars, handleVars, inspectData,
                 workerVars>>

\* The entries of a batch that are of this container (none in a nil batch).
OwnStats(batch) ==
  SelectSeq(Entries(batch), LAMBDA st : st.ContainerID = ContainerID)

\* for _, stats := range allStats: cache the first entry of this container
\* under the lock.
MonitorCacheStats ==
  /\ mon.pc = "gotStats"
  /\ IF OwnStats(mon.val) = << >>
       THEN UNCHANGED containerStats
       ELSE /\ CanLock
            /\ containerStats' = Head(OwnStats(mon.val)).CPUNano
  /\ mon' = [pc |-> "loop", val |-> NIL]
  /\ UNCHANGED <<ctxDone, hubVars, clientVars, now, dead, stateLock, procState,
                 completedAt, exitResultPtr, exitResult, ts, ew, exitChannel,
                 inspectData,
                 workerVars>>

\* errors.Is(statsErr, api.ContainerNotFound) || errors.Is(statsErr, api.ContainerWrongState)
Gone(statsErr) == statsErr \in {"ContainerNotFound", "ContainerWrongState"}

\* A probe that takes every error of the direct probe for a stopped container.
MonitorProbe_AnyErrGone ==
  /\ mon.pc = "gotErr"
  /\ \E resp \in ProbeResponses :
       LET statsErr == ContainerStats(resp) IN
         /\ dead => Gone(statsErr)
         /\ mon' = [pc |-> IF statsErr # NIL THEN "inspect" ELSE "loop",
                     val |-> statsErr]
  /\ UNCHANGED <<ctxDone, hubVars, clientVars, handleVars, inspectData,
                 workerVars>>

\* The direct probe after a broadcast error, and the decision on its result;
\* mon.val keeps statsErr.  A stopped container answers only not-found or
\* wrong-state.
MonitorProbe ==
  /\ mon.pc = "gotErr"
  /\ \E resp \in ProbeResponses :
       LET statsErr == ContainerStats(resp) IN
         /\ dead => Gone(statsErr)
         /\ mon' = [pc |-> IF statsErr # NIL /\ Gone(statsErr) THEN "inspect" ELSE "loop",
                     val |-> statsErr]
  /\ UNCHANGED <<ctxDone, hubVars, clientVars, handleVars, inspectData,
                 workerVars>>

\* An Inspect step that already flips the state, before the result is written.
MonitorInspect_ExitFirst ==
  /\ mon.pc = "inspect"
  /\ inspectData' \in InspectResults
  /\ procState' = "exited"
  /\ mon' = [mon EXCEPT !.pc = "lock"]
  /\ UNCHANGED <<ctxDone, hubVars, clientVars, now, dead, stateLock, completedAt,
                 containerStats, exitResultPtr, exitResult, ts, ew, exitChannel,
                 workerVars>>

\* inspectData, err := h.podmanClient.ContainerInspect(...)
MonitorInspect ==
  /\ mon.pc = "inspect"
  /\ inspectData' \in InspectResults
  /\ mon' = [mon EXCEPT !.pc = "lock"]
  /\ UNCHANGED <<ctxDone, hubVars, clientVars, handleVars,
                 workerVars>>

\* h.stateLock.Lock()
MonitorLock ==
  /\ mon.pc = "lock"
  /\ CanLock
  /\ stateLock' = [stateLock EXCEPT !.writer = "mon"]
  /\ mon' = [mon EXCEPT !.pc = "write"]
  /\ UNCHANGED <<ctxDone, hubVars, clientVars, now, dead, fieldVars, ts, ew, exitChannel,
                 inspectData,
                 workerVars>>

\* The writes in the wrong order: the reported error string written after the
\* OOM message.
WrittenResult_ErrorAfterOOM(old, d) ==
  IF d.err
    THEN [old EXCEPT !.Err = InspectErr, !.Signal = 0]
    ELSE LET a == [old EXCEPT !.ExitCode = d.ExitCode]
             b == IF d.OOMKilled THEN [a EXCEPT !.OOMKilled = TRUE, !.Err = OOMErr]
                                 ELSE a
         IN  IF d.Error # "" THEN [b EXCEPT !.Err = d.Error] ELSE b

\* The exit result after the writes of the critical section.
WrittenResult(old, d) ==
  IF d.err
    THEN [old EXCEPT !.Err = InspectErr, !.Signal = 0]
    ELSE LET a == [old EXCEPT !.ExitCode = d.ExitCode]
             b == IF d.Error # "" THEN [a EXCEPT !.Err = d.Error] ELSE a
         IN  IF d.OOMKilled THEN [b EXCEPT !.OOMKilled = TRUE, !.Err = OOMErr]
                            ELSE b

\* The completion time without the first write (h.completedAt = time.Now()).
WrittenCompletedAt_FinishedAt(d) == d.FinishedAt

\* The completion time after the writes of the critical section.
WrittenCompletedAt(d) == IF d.err THEN now ELSE d.FinishedAt

\* h.completedAt = ...; h.exitResult.* = ...   (lock held)
MonitorWrite ==
  /\ mon.pc = "write"
  /\ completedAt' = WrittenCompletedAt(inspectData)
  /\ exitResult' = WrittenResult(exitResult, inspectData)
  /\ mon' = [mon EXCEPT !.pc = "exit"]
  /\ UNCHANGED <<ctxDone, hubVars, clientVars, now, dead, stateLock, procState,
                 containerStats, exitResultPtr, ts, ew, exitChannel, inspectData,
                 workerVars>>

\* The end of the critical section without the return: the loop goes on.
MonitorExit_NoReturn ==
  /\ mon.pc = "exit"
  /\ procState' = "exited"
  /\ stateLock' = [stateLock EXCEPT !.writer = NIL]
  /\ mon' = [pc |-> "loop", val |-> NIL]
  /\ UNCHANGED <<ctxDone, hubVars, clientVars, now, dead, completedAt, containerStats,
                 exitResultPtr, exitResult, ts, ew, exitChannel, inspectData,
                 workerVars>>

\* h.procState = drivers.TaskStateExited; h.stateLock.Unlock(); return
MonitorExit ==
  /\ mon.pc = "exit"
  /\ procState' = "exited"
  /\ stateLock' = [stateLock EXCEPT !.writer = NIL]
  /\ mon' = [mon EXCEPT !.pc = "done"]
  /\ UNCHANGED <<ctxDone, hubVars, clientVars, now, dead, completedAt, containerStats,
                 exitResultPtr, exitResult, ts, ew, exitChannel, inspectData,
                 workerVars>>

MonitorStep ==
  \/ MonitorSubscribeStats
  \/ MonitorSubscribeErr
  \/ MonitorPark
  \/ MonitorCtxDone
  \/ MonitorRecvClosedStats
  \/ MonitorRecvClosedErr
  \/ MonitorCacheStats
  \/ MonitorProbe
  \/ MonitorInspect
  \/ MonitorLock
  \/ MonitorWrite
  \/ MonitorExit

\* ------------------------------------------------------------ taskStatus
\* taskStatus reading without waiting for the writer to release the lock.
TaskStatusRLock_NoWait ==
  /\ ts.pc = "idle"
  /\ stateLock' = [stateLock EXCEPT !.readers = @ \cup {"ts"}]
  /\ ts' = [pc |-> "read", ret |-> NoStatus]
  /\ UNCHANGED <<ctxDone, hubVars, clientVars, now, dead, fieldVars, ew, exitChannel,
                 monVars,
                 workerVars>>

\* h.stateLock.RLock()
TaskStatusRLock ==
  /\ ts.pc = "idle"
  /\ CanRLock
  /\ stateLock' = [stateLock EXCEPT !.readers = @ \cup {"ts"}]
  /\ ts' = [pc |-> "read", ret |-> NoStatus]
  /\ UNCHANGED <<ctxDone, hubVars, clientVars, now, dead, fieldVars, ew, exitChannel,
                 monVars,
                 workerVars>>

\* State: h.procState
TaskStatusReadState ==
  /\ ts.pc = "read"
  /\ ts' = [pc |-> "read2", ret |-> [NoStatus EXCEPT !.State = procState]]
  /\ UNCHANGED <<ctxDone, hubVars, clientVars, now, dead, stateLock, fieldVars, ew,
                 exitChannel, monVars,
                 workerVars>>

\* CompletedAt: h.completedAt, ExitResult: h.exitResult (the pointer);
\* the deferred RUnlock; return
TaskStatusReturn ==
  /\ ts.pc = "read2"
  /\ ts' = [pc |-> "idle",
            ret |-> [State |-> ts.ret.State, CompletedAt |-> completedAt,
                     ExitResult |-> exitResultPtr]]
  /\ stateLock' = [stateLock EXCEPT !.readers = @ \ {"ts"}]
  /\ UNCHANGED <<ctxDone, hubVars, clientVars, now, dead, fieldVars, ew, exitChannel,
                 monVars,
                 workerVars>>

TaskStatusStep ==
  \/ TaskStatusRLock
  \/ TaskStatusReadState
  \/ TaskStatusReturn

\* ------------------------------------------------------------ runExitWatcher
\* isRunning(): RLock; h.procState == running; RUnlock
IsRunning == procState = "running"

\* if !h.isRunning() { return }
ExitWatcherCheck ==
  /\ ew.pc = "check"
  /\ CanRLock
  /\ ew' = IF IsRunning THEN [ew EXCEPT !.pc = "select"]
                        ELSE [ew EXCEPT !.pc = "defer", !.why = "exited"]
  /\ UNCHANGED <<ctxDone, hubVars, clientVars, now, dead, stateLock, fieldVars, ts,
                 exitChannel, monVars,
                 workerVars>>

\* case <-ctx.Done(): return
ExitWatcherCtxDone ==
  /\ ew.pc = "select"
  /\ ctxDone
  /\ ew' = [ew EXCEPT !.pc = "defer",
                      !.why = IF procState = "running" THEN "cancelRunning"
                                                       ELSE "cancel"]
  /\ UNCHANGED <<ctxDone, hubVars, clientVars, now, dead, stateLock, fieldVars, ts,
                 exitChannel, monVars,
                 workerVars>>

\* case <-timer.C: timer.Reset(time.Second)
ExitWatcherTimer ==
  /\ ew.pc = "select"
  /\ ew' = [ew EXCEPT !.pc = "check"]
  /\ UNCHANGED <<ctxDone, hubVars, clientVars, now, dead, stateLock, fieldVars, ts,
                 exitChannel, monVars,
                 workerVars>>

\* deferred: Lock; result := h.exitResult; Unlock
ExitWatcherRead ==
  /\ ew.pc = "defer"
  /\ CanLock
  /\ ew' = [ew EXCEPT !.pc = "send",
                      !.result = [ptr |-> exitResultPtr, state |-> procState,
                                  seen |-> exitResult]]
  /\ UNCHANGED <<ctxDone, hubVars, clientVars, now, dead, stateLock, fieldVars, ts,
                 exitChannel, monVars,
                 workerVars>>

\* deferred: exitChannel <- result (taken by the orchestrator)
ExitWatcherSend ==
  /\ ew.pc = "send"
  /\ ~exitChannel.closed
  /\ exitChannel' = [exitChannel EXCEPT !.sent = Append(@, ew.result)]
  /\ ew' = [ew EXCEPT !.pc = "close"]
  /\ UNCHANGED <<ctxDone, hubVars, clientVars, now, dead, stateLock, fieldVars, ts,
                 monVars,
                 workerVars>>

\* deferred: close(exitChannel)
ExitWatcherClose ==
  /\ ew.pc = "close"
  /\ exitChannel' = [exitChannel EXCEPT !.closed = TRUE]
  /\ ew' = [ew EXCEPT !.pc = "done"]
  /\ UNCHANGED <<ctxDone, hubVars, clientVars, now, dead, stateLock, fieldVars, ts,
                 monVars,
                 workerVars>>

ExitWatcherStep ==
  \/ ExitWatcherCheck
  \/ ExitWatcherCtxDone
  \/ ExitWatcherTimer
  \/ ExitWatcherRead
  \/ ExitWatcherSend
  \/ ExitWatcherClose

\* ------------------------------------------------------------ runLogStreamer
\* The two fifos are opened (a failure ends the streamer); init := true;
\* since := h.logPointer
LogStreamerOpen ==
  /\ ls.pc = "start"
  /\ \/ ls' = [ls EXCEPT !.pc = "done"]
     \/ ls' = [ls EXCEPT !.pc = "select", !.init = TRUE, !.since = logPointer]
  /\ UNCHANGED <<ctxDone, hubVars, clientVars, handleVars, monVars, logPointer, se>>

\* select { case <-ctx.Done(): return
LogStreamerCtxDone ==
  /\ ls.pc = "select"
  /\ ctxDone
  /\ ls' = [ls EXCEPT !.pc = "done"]
  /\ UNCHANGED <<ctxDone, hubVars, clientVars, handleVars, monVars, logPointer, se>>

\* default: taken when the context is not cancelled.  The first round calls
\* ContainerLogs at once, a retry sleeps first.
LogStreamerDefault ==
  /\ ls.pc = "select"
  /\ ~ctxDone
  /\ ls' = IF ls.init THEN [ls EXCEPT !.pc = "call", !.arg = ls.since]
                      ELSE [ls EXCEPT !.pc = "sleep"]
  /\ UNCHANGED <<ctxDone, hubVars, clientVars, handleVars, monVars, logPointer, se>>

\* time.Sleep(2 * time.Second) is over:
\* h.podmanClient.ContainerLogs(ctx, h.containerID, since, stdout, stderr) starts
LogStreamerSleep ==
  /\ ls.pc = "sleep"
  /\ ls' = [ls EXCEPT !.pc = "call", !.arg = ls.since]
  /\ UNCHANGED <<ctxDone, hubVars, clientVars, handleVars, monVars, logPointer, se>>

\* ContainerLogs returned an error: init = false; since = time.Now()
LogStreamerInterrupted ==
  /\ ls.pc = "call"
  /\ ls' = [ls EXCEPT !.pc = "lock", !.init = FALSE, !.since = now]
  /\ UNCHANGED <<ctxDone, hubVars, clientVars, handleVars, monVars, logPointer, se>>

\* ContainerLogs returned nil: the stream ended, return
LogStreamerEnd ==
  /\ ls.pc = "call"
  /\ ls' = [ls EXCEPT !.pc = "done"]
  /\ UNCHANGED <<ctxDone, hubVars, clientVars, handleVars, monVars, logPointer, se>>

\* h.stateLock.Lock()
LogStreamerLock ==
  /\ ls.pc = "lock"
  /\ CanLock
  /\ stateLock' = [stateLock EXCEPT !.writer = "ls"]
  /\ ls' = [ls EXCEPT !.pc = "write"]
  /\ UNCHANGED <<ctxDone, hubVars, clientVars, now, dead, fieldVars, ts, ew, exitChannel,
                 monVars, logPointer, se>>

\* A write of the time of the write instead of since.
LogStreamerWrite_Now ==
  /\ ls.pc = "write"
  /\ logPointer' = now
  /\ stateLock' = [stateLock EXCEPT !.writer = NIL]
  /\ ls' = [ls EXCEPT !.pc = "select"]
  /\ UNCHANGED <<ctxDone, hubVars, clientVars, now, dead, fieldVars, ts, ew, exitChannel,
                 monVars, se>>

\* h.logPointer = since; h.stateLock.Unlock()
LogStreamerWrite ==
  /\ ls.pc = "write"
  /\ logPointer' = ls.since
  /\ stateLock' = [stateLock EXCEPT !.writer = NIL]
  /\ ls' = [ls EXCEPT !.pc = "select"]
  /\ UNCHANGED <<ctxDone, hubVars, clientVars, now, dead, fieldVars, ts, ew, exitChannel,
                 monVars, se>>

LogStreamerStep ==
  \/ LogStreamerOpen
  \/ LogStreamerCtxDone
  \/ LogStreamerDefault
  \/ LogStreamerSleep
  \/ LogStreamerInterrupted
  \/ LogStreamerEnd
  \/ LogStreamerLock
  \/ LogStreamerWrite

\* ------------------------------------------------------------ runStatsEmitter
\* case <-ctx.Done(): return
StatsEmitterCtxDone ==
  /\ se.pc = "select"
  /\ ctxDone
  /\ se' = [se EXCEPT !.pc = "done"]
  /\ UNCHANGED <<ctxDone, hubVars, clientVars, handleVars, monVars, logPointer, ls>>

\* case <-timer.C: timer.Reset(interval)
StatsEmitterTimer ==
  /\ se.pc = "select"
  /\ se' = [se EXCEPT !.pc = "lock"]
  /\ UNCHANGED <<ctxDone, hubVars, clientVars, handleVars, monVars, logPointer, ls>>

\* h.stateLock.Lock()
StatsEmitterLock ==
  /\ se.pc = "lock"
  /\ CanLock
  /\ stateLock' = [stateLock EXCEPT !.writer = "se"]
  /\ se' = [se EXCEPT !.pc = "locked"]
  /\ UNCHANGED <<ctxDone, hubVars, clientVars, now, dead, fieldVars, ts, ew, exitChannel,
                 monVars, logPointer, ls>>

\* An emitter that keeps the lock until the orchestrator has taken the record.
StatsEmitterRead_KeepsLock ==
  /\ se.pc = "locked"
  /\ se' = [pc |-> "send", usage |-> [CPUNano |-> containerStats, Timestamp |-> now]]
  /\ UNCHANGED <<ctxDone, hubVars, clientVars, handleVars, monVars, logPointer, ls>>

\* t := time.Now(); cs, ms from h.containerStats; h.stateLock.Unlock();
\* usage := drivers.TaskResourceUsage{...}
StatsEmitterRead ==
  /\ se.pc = "locked"
  /\ se' = [pc |-> "send", usage |-> [CPUNano |-> containerStats, Timestamp |-> now]]
  /\ stateLock' = [stateLock EXCEPT !.writer = NIL]
  /\ UNCHANGED <<ctxDone, hubVars, clientVars, now, dead, fieldVars, ts, ew, exitChannel,
                 monVars, logPointer, ls>>

\* statsChannel <- &usage (taken by the orchestrator); the next round builds
\* a new record.
StatsEmitterSend ==
  /\ se.pc = "send"
  /\ se' = [pc |-> "select", usage |-> NoUsage]
  /\ UNCHANGED <<ctxDone, hubVars, clientVars, handleVars, monVars, logPointer, ls>>

StatsEmitterStep ==
  \/ StatsEmitterCtxDone
  \/ StatsEmitterTimer
  \/ StatsEmitterLock
  \/ StatsEmitterRead
  \/ StatsEmitterSend

\* The hub with its generic subscribers.
NextHub == Cancel \/ PollerStep \/ ServeStep \/ ClientStep
SpecHub == Init /\ [][NextHub]_vars

\* The hub under fair scheduling: serve goes on whenever it can, and its
\* select picks at random among the ready cases, so the cancellation case is
\* not passed over for ever.  Nothing is assumed of the poller or of the
\* subscribers.
FairnessHub ==
  /\ WF_vars(ServeStep)
  /\ SF_vars(ServeCtxDone)
SpecHubLive == Init /\ [][NextHub]_vars /\ FairnessHub

\* The same, and a sender blocked on a registration channel is not passed
\* over for ever by serve's select either.
FairnessSubscribe ==
  /\ FairnessHub
  /\ \A c \in Clients :
       /\ SF_vars(ClientSubscribeStats(c))
       /\ SF_vars(ClientSubscribeErr(c))
SpecSubscribeLive == Init /\ [][NextHub]_vars /\ FairnessSubscribe

\* The handle with its Monitor subscribed to the hub.
\* serve as the handle drives it: runContainerMonitor subscribes and never
\* calls CancelSubscription, so no removal request ever reaches the hub.
ServeStepHandle ==
  \/ ServeCtxDone
  \/ ServeAddStats
  \/ ServeAddErr
  \/ ServeRecvStatsClosed
  \/ ServeRecvErr
  \/ ServeBroadcastStats
  \/ ServeBroadcastErr

NextHandle ==
  \/ Cancel
  \/ Tick
  \/ PollerStep
  \/ ServeStepHandle
  \/ MonitorStep
  \/ TaskStatusStep
  \/ ExitWatcherStep
SpecHandle == Init /\ [][NextHandle]_vars

\* The handle without cancellation, with a container that stops, under fair
\* scheduling: every goroutine that can run infinitely often does run (the
\* runtime's scheduler; a blocked channel operation or Lock is served once
\* its partner or the lock is available, a select picks every ready case with
\* a positive probability), and the poll keeps failing (the upstream keeps
\* producing errors).
MonitorStepLive ==
  \/ MonitorSubscribeStats
  \/ MonitorSubscribeErr
  \/ MonitorPark
  \/ MonitorCacheStats
  \/ MonitorProbe
  \/ MonitorInspect
  \/ MonitorLock
  \/ MonitorWrite
  \/ MonitorExit

ServeStepLive ==
  \/ ServeAddStats
  \/ ServeAddErr
  \/ ServeRecvErr
  \/ ServeBroadcastStats
  \/ ServeBroadcastErr

ExitWatcherStepLive ==
  \/ ExitWatcherCheck
  \/ ExitWatcherTimer
  \/ ExitWatcherRead
  \/ ExitWatcherSend
  \/ ExitWatcherClose

NextLive ==
  \/ ContainerStops
  \/ PollerTickErr
  \/ PollerSendErr
  \/ PollerTickStats
  \/ ServeStepLive
  \/ MonitorStepLive
  \/ TaskStatusStep
  \/ ExitWatcherStepLive

Fairness ==
  /\ WF_vars(PollerTickErr)
  /\ WF_vars(PollerSendErr)
  /\ WF_vars(TaskStatusStep)
  /\ SF_vars(ServeStepLive)
  /\ SF_vars(MonitorStepLive)
  /\ SF_vars(ExitWatcherStepLive)

SpecLive == Init /\ [][NextLive]_vars /\ Fairness

\* The five loops and the poller with the cancellation, under fair scheduling:
\* every goroutine that can run infinitely often does run, a select takes its
\* cancellation case eventually, ContainerLogs returns, and the orchestrator
\* takes what the ExitWatcher and the StatsEmitter send.  The polls of the
\* upstream fail, so the hub has errors to broadcast.
PollerStepErr ==
  \/ PollerCtxDone
  \/ PollerTickErr
  \/ PollerSendErr

NextShutdown ==
  \/ Cancel
  \/ PollerStepErr
  \/ ServeStepHandle
  \/ MonitorStep
  \/ ExitWatcherStep
  \/ LogStreamerStep
  \/ StatsEmitterStep

FairnessShutdown ==
  /\ WF_vars(PollerStepErr)
  /\ SF_vars(ServeStepHandle)
  /\ SF_vars(ServeCtxDone)
  /\ SF_vars(MonitorStep)
  /\ SF_vars(MonitorCtxDone)
  /\ SF_vars(ExitWatcherStep)
  /\ SF_vars(ExitWatcherCtxDone)
  /\ SF_vars(LogStreamerStep)
  /\ SF_vars(StatsEmitterStep)
  /\ SF_vars(StatsEmitterCtxDone)
SpecShutdown == Init /\ [][NextShutdown]_vars /\ FairnessShutdown

\* The LogStreamer with the clock, the cancellation and the other users of the
\* state lock that need no hub.
NextLog ==
  \/ Cancel
  \/ Tick
  \/ LogStreamerStep
  \/ StatsEmitterStep
  \/ TaskStatusStep
SpecLog == Init /\ [][NextLog]_vars

\* All users of the state lock, with the hub feeding the Monitor batches and
\* errors, as long as the context is not cancelled.
LogStreamerStepLive ==
  \/ LogStreamerOpen
  \/ LogStreamerDefault
  \/ LogStreamerSleep
  \/ LogStreamerInterrupted
  \/ LogStreamerEnd
  \/ LogStreamerLock
  \/ LogStreamerWrite

StatsEmitterStepLive ==
  \/ StatsEmitterTimer
  \/ StatsEmitterLock
  \/ StatsEmitterRead
  \/ StatsEmitterSend

NextLocks ==
  \/ PollerTickErr
  \/ PollerSendErr
  \/ PollerTickStats
  \/ ServeStepLive
  \/ MonitorStepLive
  \/ TaskStatusStep
  \/ ExitWatcherStepLive
  \/ LogStreamerStepLive
  \/ StatsEmitterStepLive
SpecLocks == Init /\ [][NextLocks]_vars

\* ====================================================================
\* Properties
\* ====================================================================

\* The channels of client c's current subscription.
SubS(c) == ChanS(c, cl[c].gen)
SubE(c) == ChanE(c, cl[c].gen)
Listed(ch) == ch \in Range(statsListeners) \cup Range(errListeners)
Broadcasting == srv.pc \in {"bcastStats", "bcastErr"}

\* C1 as stated: once CancelSubscription(s, e) has returned, nothing is
\* delivered on s or e any more, and both channels have been removed from the
\* listener lists and closed.
C1_Original ==
  /\ late = {}
  /\ \A c \in Clients :
       cl[c].pc = "cancelled" =>
         /\ ~Listed(SubS(c)) /\ SubS(c) \in closedCh
         /\ ~Listed(SubE(c)) /\ SubE(c) \in closedCh

\* C1 amended: once CancelSubscription(s, e) has returned, nothing is delivered
\* on s or e any more; s has been removed and closed; e has been removed and
\* closed, or serve has taken the removal request of e and removes and closes e
\* as its next step, before it takes any other event.
C1_NoDeliveryAfterCancel ==
  /\ late = {}
  /\ \A c \in Clients :
       cl[c].pc = "cancelled" =>
         /\ ~Listed(SubS(c)) /\ SubS(c) \in closedCh
         /\ \/ ~Listed(SubE(c)) /\ SubE(c) \in closedCh
            \/ srv.pc = "rmErr" /\ srv.ch = SubE(c)

\* A broadcast to a remaining listener is under way after a cancellation.
C1_Witness ==
  \E c \in Clients :
    /\ cl[c].pc = "cancelled"
    /\ SubE(c) \in closedCh
    /\ srv.pc = "bcastErr"
    /\ srv.val \in PollErrors
    /\ Len(errListeners) >= 1
    /\ Ready(errListeners[1])

\* The list a broadcast of kind pc runs over.
BcastList == IF srv.pc = "bcastStats" THEN statsListeners ELSE errListeners

\* What a step of the broadcast loop must do: advance (or finish), hand the
\* value to the current listener if it is ready, leave it alone otherwise.
BroadcastStepOK ==
  (Broadcasting /\ srv' # srv /\ srv.i <= Len(BcastList)) =>
    LET ch == BcastList[srv.i] IN
      /\ \/ srv'.pc = "select"
         \/ srv'.pc = srv.pc /\ srv'.i = srv.i + 1 /\ srv'.val = srv.val
      /\ Ready(ch) =>
           IF Owner(ch) = "mon"
             THEN mon'.pc \in {"gotStats", "gotErr"} /\ mon'.val = srv.val
             ELSE cl'[Owner(ch)].got = <<Kind(ch), srv.val>>
      /\ ~Ready(ch) => UNCHANGED <<cl, mon>>

\* C2: whenever serve is in a broadcast, its next step can be taken whatever
\* the listeners do (it waits on none of them); the step skips a listener that
\* is not ready, hands the value to one that is, and moves on to the next
\* listener or back to the select.
C2_NonBlockingFanOut ==
  /\ [](Broadcasting => ENABLED (ServeBroadcastStats \/ ServeBroadcastErr))
  /\ [][BroadcastStepOK]_vars

\* Of two listeners the first was not ready and got nothing, the second got
\* the batch, and serve is back in its select.
C2_Witness ==
  /\ srv.pc = "select"
  /\ \E c, d \in Clients :
       /\ c # d
       /\ statsListeners = <<SubS(c), SubS(d)>>
       /\ cl[c].ready = {} /\ cl[c].got = NoValue /\ cl[c].pc = "subscribed"
       /\ cl[d].got[1] = "s" /\ cl[d].got[2] \in Batches

\* C3: the state changes only from running to exited; once it is exited the
\* Monitor has returned, stays returned, and no field of the handle changes.
C3_AtMostOneTransition ==
  /\ [][procState' # procState => procState = "running" /\ procState' = "exited"]_vars
  /\ [][procState = "exited" =>
          /\ procState' = "exited"
          /\ mon.pc = "done" /\ mon' = mon
          /\ UNCHANGED fieldVars]_vars

\* The Monitor has made the transition and the hub goes on broadcasting.
C3_Witness ==
  /\ procState = "exited"
  /\ mon.pc = "done"
  /\ srv.pc = "bcastErr"
  /\ srv.val \in PollErrors

\* A record taskStatus has returned.
Returned == ts.pc = "idle" /\ ts.ret.State # NIL

MonitorFinished == mon.pc = "done" /\ mon.val # NIL

\* C5: after a confirmed death whose Inspect succeeded with oomKilled, the
\* state is exited, OOMKilled is set, the error is the OOM message, the exit
\* code and the completion time are the inspected ones.
C5_OOMPrecedence ==
  (MonitorFinished /\ ~inspectData.err /\ inspectData.OOMKilled) =>
    /\ procState = "exited"
    /\ exitResult.OOMKilled = TRUE
    /\ exitResult.Err = OOMErr
    /\ exitResult.ExitCode = inspectData.ExitCode
    /\ completedAt = inspectData.FinishedAt

\* Inspect reported exit code 137, an error string and oomKilled.
C5_Witness ==
  /\ MonitorFinished
  /\ ~inspectData.err
  /\ inspectData.OOMKilled
  /\ inspectData.Error = "boom"
  /\ inspectData.ExitCode = 137
  /\ procState = "exited"

\* C6: after a confirmed death whose Inspect failed, the state is exited, the
\* exit code is the default, signal = 0, OOMKilled is not set and the error is
\* the driver's; the critical section sets the completion time to the time of
\* its write.
C6_InspectFails ==
  /\ []((MonitorFinished /\ inspectData.err) =>
          /\ procState = "exited"
          /\ exitResult.ExitCode = ZeroExitResult.ExitCode
          /\ exitResult.Signal = 0
          /\ exitResult.OOMKilled = FALSE
          /\ exitResult.Err = InspectErr
          /\ completedAt # ZeroTime)
  /\ [][(mon.pc = "write" /\ mon'.pc # "write" /\ inspectData.err) =>
          completedAt' = now]_vars

\* Inspect failed after a wrong-state probe, at a time after the start.
C6_Witness ==
  /\ MonitorFinished
  /\ inspectData.err
  /\ mon.val = "ContainerWrongState"
  /\ procState = "exited"
  /\ completedAt = MaxClock

\* C7: the step that handles a broadcast error changes no field of the handle;
\* when the probe succeeded or failed with another error the Monitor goes back
\* to its loop; Inspect and the transition to exited happen only after a probe
\* that failed with not-found or wrong-state.
C7_TransientIgnored ==
  /\ [][(mon.pc = "gotErr" /\ mon' # mon) =>
          /\ UNCHANGED fieldVars
          /\ ~Gone(mon'.val) => mon'.pc = "loop"]_vars
  /\ [](mon.pc \in {"inspect", "lock", "write", "exit"} => Gone(mon.val))
  /\ [][procState' # procState => Gone(mon.val)]_vars

\* A broadcast error was taken, the probe failed with another error, and the
\* Monitor is back in its loop with the state unchanged.
C7_Witness ==
  /\ mon.pc = "loop"
  /\ mon.val = "other"
  /\ procState = "running"
  /\ exitResult = ZeroExitResult
  /\ completedAt = ZeroTime

\* C9: at most one value is sent on the exit channel, the channel is closed
\* only after that value, and by the returning ExitWatcher; a value sent after
\* the state was observed non-running was read when the state was exited and
\* the Monitor had returned, and is the exit result the handle ends with.
C9_ExactlyOnce ==
  /\ Len(exitChannel.sent) <= 1
  /\ exitChannel.closed <=> ew.pc = "done"
  /\ exitChannel.closed => Len(exitChannel.sent) = 1
  /\ (ew.why = "exited" /\ ew.pc \in {"send", "close", "done"}) =>
       /\ ew.result.ptr # NIL
       /\ ew.result.state = "exited"
       /\ ew.result.seen = exitResult
       /\ mon.pc = "done"
  /\ \A i \in 1..Len(exitChannel.sent) : exitChannel.sent[i] = ew.result

\* The watcher saw the exit, sent the written result and closed the channel.
C9_Witness ==
  /\ exitChannel.closed
  /\ ew.why = "exited"
  /\ Len(exitChannel.sent) = 1
  /\ exitChannel.sent[1].seen # ZeroExitResult

\* C10 as stated: an ExitWatcher that took the cancellation while the state
\* was running sends nothing on the exit channel.
C10_NoSendOnCancel ==
  ew.why = "cancelRunning" => exitChannel.sent = << >>

\* The ExitWatcher has delivered one value and returned.
Delivered == ew.pc = "done" /\ Len(exitChannel.sent) = 1 /\ exitChannel.closed

\* C8 as stated: once the container has stopped (and with the upstream
\* producing errors for ever), the Monitor eventually sets the state to
\* exited, and the ExitWatcher then eventually delivers and stops.
C8_Original ==
  /\ dead ~> (procState = "exited")
  /\ (procState = "exited") ~> Delivered

\* C8 amended: the same, provided that from some point on the hub broadcasts
\* no more stats batches: a broadcast error is dropped for a Monitor that is
\* still busy with a batch, so only then an error is sure to reach it.
C8_EventuallyExited ==
  /\ (<>[](dead /\ srv.pc # "bcastStats")) => <>(procState = "exited")
  /\ (procState = "exited") ~> Delivered

\* The container stopped, the Monitor set the state and the result was
\* delivered.
C8_Witness ==
  /\ dead
  /\ procState = "exited"
  /\ Delivered
  /\ exitChannel.sent[1].state = "exited"

\* C11: the resume cursor never decreases (since, the handle's logPointer, and
\* logPointer never runs ahead of since); the first invocation of
\* ContainerLogs is handed the handle's initial logPointer, and every retry is
\* handed the value the preceding interruption has put into logPointer.
C11_ResumeMonotonic ==
  /\ [][ls'.since >= ls.since \/ ls.pc = "start"]_vars
  /\ [][logPointer' >= logPointer]_vars
  /\ [](ls.pc \in {"select", "sleep", "call", "lock", "write"} => logPointer <= ls.since)
  /\ [](ls.pc = "call" =>
          IF ls.init THEN ls.arg = StartTime /\ logPointer = StartTime
                     ELSE ls.arg = logPointer /\ ls.arg = ls.since)
  /\ [][(ls.pc = "call" /\ ls'.pc = "lock") =>
          ls'.since = now /\ ls'.since >= ls.arg]_vars

\* A retry runs with a cursor that an interruption has advanced.
C11_Witness ==
  /\ ls.pc = "call"
  /\ ~ls.init
  /\ ls.arg = MaxClock
  /\ logPointer = MaxClock

\* C12 as stated: once the context is cancelled, the LogStreamer starts no
\* further ContainerLogs invocation and changes the resume cursor no more.
C12_ReturnsOnCancel ==
  [][ctxDone =>
       /\ ~(ls.pc # "call" /\ ls'.pc = "call")
       /\ ls'.since = ls.since
       /\ logPointer' = logPointer]_vars

\* The places where a worker is suspended: on a channel, on a timer or a sleep,
\* or inside a call to the runtime.
MonitorSuspended == mon.pc \in {"start", "sub2", "parked", "gotErr", "inspect"}
ExitWatcherSuspended == ew.pc \in {"select", "send"}
StatsEmitterSuspended == se.pc \in {"select", "send"}
LogStreamerSuspended == ls.pc \in {"start", "sleep", "call"}

\* C17: a suspended worker does not hold the state lock; the lock is held only
\* by a worker inside its critical section, whose next step needs nothing
\* from any other worker, so the lock is always released again; taskStatus
\* holds its read lock only while it copies the fields.
C17_NoLockWhileSuspended ==
  /\ MonitorSuspended => stateLock.writer # "mon"
  /\ ExitWatcherSuspended => stateLock.writer # "ew"
  /\ StatsEmitterSuspended => stateLock.writer # "se"
  /\ LogStreamerSuspended => stateLock.writer # "ls"
  /\ stateLock.writer \in {NIL, "mon", "se", "ls"}
  /\ stateLock.writer = "mon" => mon.pc \in {"write", "exit"} /\ ENABLED MonitorStepLive
  /\ stateLock.writer = "se" => se.pc = "locked" /\ ENABLED StatsEmitterStepLive
  /\ stateLock.writer = "ls" => ls.pc = "write" /\ ENABLED LogStreamerStepLive
  /\ stateLock.readers \subseteq {"ts"}
  /\ "ts" \in stateLock.readers => ts.pc \in {"read", "read2"} /\ ENABLED TaskStatusStep
  /\ stateLock.writer # NIL => stateLock.readers = {}

\* The StatsEmitter waits for the orchestrator to take its record while the
\* Monitor holds the lock in its critical section.
C17_Witness ==
  /\ se.pc = "send"
  /\ se.usage # NoUsage
  /\ stateLock.writer = "mon"
  /\ ls.pc = "lock"

\* What a returned record shows as its exit result: the record holds the
\* pointer h.exitResult, so it shows the ExitResult the pointer leads to now.
Shown(ret) == IF ret.ExitResult = exitResultPtr THEN exitResult ELSE ZeroExitResult

\* C18 as stated: a record returned by taskStatus shows the fields of before
\* the transition (running, no completion time, the unwritten exit result) or
\* those of after it (exited, the final completion time and exit result), also
\* when the Monitor makes its transition after the call has returned.
C18_ConsistentCopy ==
  Returned =>
    \/ /\ ts.ret.State = "running"
       /\ ts.ret.CompletedAt = ZeroTime
       /\ Shown(ts.ret) = ZeroExitResult
    \/ /\ ts.ret.State = "exited"
       /\ procState = "exited"
       /\ ts.ret.CompletedAt = completedAt
       /\ Shown(ts.ret) = exitResult

\* C20 as stated: every value a subscriber takes from its stats or error
\* channel is a batch or an error the poller has sent, never the nil batch or
\* nil error of a closed upstream channel; the Monitor is handed only batches
\* that the poller has sent, and it enters its error case (whose next
\* statement is the direct probe) only with an error that the poller has
\* sent, not with the nil error of a closed channel.
C20_OnlyUpstreamValues ==
  /\ \A c \in Clients : cl[c].got[1] \in {"s", "e"} => cl[c].got[2] # NIL
  /\ (mon.pc = "gotStats" /\ ChanS("mon", 1) \notin closedCh) => mon.val \in Batches
  /\ mon.pc = "gotErr" => mon.val \in PollErrors

\* serve handles a removal request of a repeated call of CancelSubscription or
\* of a call with a pair the hub does not know.
NoOpRequest ==
  /\ srv.pc \in {"rmStats", "rmErr"}
  /\ Owner(srv.ch) \in Clients
  /\ ~cl[Owner(srv.ch)].known

\* C13: the removal requests of a repeated call, or of a call with a pair the
\* hub does not know, name channels that are in no listener list; serve's step
\* for such a request leaves both lists, the closed channels and every
\* subscriber as they are and goes back to its select; a call that has sent
\* its first request can send its second one whenever serve is in its select,
\* so it returns.
C13_CancelIdempotent ==
  /\ [](NoOpRequest => ~Listed(srv.ch))
  /\ [][(NoOpRequest /\ srv' # srv) =>
          /\ statsListeners' = statsListeners
          /\ errListeners' = errListeners
          /\ closedCh' = closedCh
          /\ cl' = cl
          /\ srv' = SrvSelect]_vars
  /\ [](\A c \in Clients :
          (cl[c].pc = "can2" /\ srv.pc = "select") => ENABLED ClientCancelErr(c))

\* One client has cancelled twice, and the other one, still subscribed, takes
\* a batch from a broadcast made afterwards.
C13_Witness ==
  \E c, d \in Clients :
    /\ cl[c].pc = "cancelled"
    /\ ~cl[c].known
    /\ cl[d].pc = "subscribed"
    /\ Listed(SubS(d))
    /\ SubS(d) \notin closedCh
    /\ cl[d].got[1] = "s"
    /\ cl[d].got[2] \in Batches

\* No listener occurs twice in the lists.
NoDuplicates ==
  Cardinality(Range(statsListeners) \cup Range(errListeners))
    = Len(statsListeners) + Len(errListeners)

\* C19: serve never closes a closed channel and never sends on one: a closed
\* channel is in a listener list only once serve has returned (its shutdown
\* handler closes the listeners and leaves them in the lists), and no listener
\* is in the lists twice.
C19_NoDoubleClose ==
  /\ srv.pc # "panic"
  /\ srv.pc # "done" =>
       (Range(statsListeners) \cup Range(errListeners)) \cap closedCh = {}
  /\ NoDuplicates

\* One subscription was cancelled (also a second time), another one was closed
\* by the shutdown handler after a broadcast.
C19_Witness ==
  \E c, d \in Clients :
    /\ srv.pc = "done"
    /\ cl[c].pc = "cancelled"
    /\ ~cl[c].known
    /\ SubS(c) \in closedCh
    /\ ~Listed(SubS(c))
    /\ cl[d].pc = "subscribed"
    /\ Listed(SubS(d))
    /\ SubS(d) \in closedCh
    /\ SubE(d) \in closedCh

\* C14: once the context is cancelled, both channels of every subscription
\* that Subscribe has returned and that is not cancelled are eventually closed,
\* and a consumer waiting on a closed channel can wake up with end-of-stream.
C14_ShutdownClosesAll ==
  /\ \A c \in Clients : \A g \in 1..MaxSubs :
       (ctxDone /\ cl[c].pc = "subscribed" /\ cl[c].gen = g) ~>
         (ChanS(c, g) \in closedCh /\ ChanE(c, g) \in closedCh)
  /\ [](\A c \in Clients :
          (\E k \in cl[c].ready : <<c, cl[c].gen, k>> \in closedCh) =>
            ENABLED ClientWakeClosed(c))

\* After the shutdown a consumer that was waiting on its error channel has
\* seen end-of-stream, and both of its channels are closed.
C14_Witness ==
  \E c \in Clients :
    /\ srv.pc = "done"
    /\ cl[c].pc = "subscribed"
    /\ cl[c].got = <<"eos", NIL>>
    /\ SubS(c) \in closedCh
    /\ SubE(c) \in closedCh

\* C15 as stated: every call of Subscribe returns, with both of its channels
\* registered in the listener lists, whatever the other subscribers, the
\* broadcasts and the cancellation of the context do.
C15_SubscribeReturns ==
  \A c \in Clients :
    (cl[c].pc = "sub1") ~>
      (cl[c].pc = "subscribed" /\ Listed(SubS(c)) /\ Listed(SubE(c)))

\* C16 as stated: after the cancellation each of the five loops (serve, the
\* Monitor, the LogStreamer, the ExitWatcher, the StatsEmitter) eventually
\* returns.
C16_AllLoopsReturn ==
  ctxDone ~>
    /\ srv.pc = "done"
    /\ mon.pc = "done"
    /\ ls.pc = "done"
    /\ ew.pc = "done"
    /\ se.pc = "done"

====
